---- MODULE Spec2Model ----
(***************************************************************************)
(* Model of src/app/species/species-details-dialog.tsx: the zod schema     *)
(* speciesSchema, the SpeciesDetailsDialog component (edit / cancel /      *)
(* submit / delete / navigate handlers, the author display-name effect),   *)
(* the environment it talks to (remote store, router, parent render) and   *)
(* the SpeciesDetailPage component with its fetch effect.                  *)
(*                                                                         *)
(* Encoding of values                                                      *)
(*   text            a sequence of characters drawn from Char              *)
(*   nullable value  Null (= << >>) or Some(v) (= << v >>)                 *)
(*   number          an integer counting 1/Unit-ths, so that 2.5 is        *)
(*                   representable: Num(7) = 70, 25 is 2.5                 *)
(***************************************************************************)
EXTENDS Integers, Sequences, FiniteSets, Bags, TLC

VARIABLES
    mounted,            \* the component instance is alive
    isAuthor,           \* species.author === currentUser
    species,            \* the `species` prop (editable columns only)
    isEditing,          \* useState(false)
    authorDisplayName,  \* useState(species.author_display_name)
    effectPending,      \* the display-name effect is scheduled to run
    values,             \* react-hook-form field values (the draft)
    errors,             \* react-hook-form formState.errors (field names)
    inflight,           \* remote requests awaiting their reply (a bag)
    store,              \* the row in the remote store, or Deleted
    refreshPending,     \* router.refresh() requested, props not yet re-delivered
    route,              \* route requested through router.push, or NoRoute
    out,                \* effects emitted by the last step (toasts, alert, ...)
    stale,              \* state updaters the last step called on an instance that is gone
    reply,              \* the reply the last step's continuation received: <<op, outcome>>
    edits,              \* number of field input events so far
    id,                 \* SpeciesDetailPage: router.query.id
    loading,            \* SpeciesDetailPage: useState(true)
    pageSpecies,        \* SpeciesDetailPage: useState<Species | null>(null)
    pageEffectPending   \* SpeciesDetailPage: its effect is scheduled to run

vars == <<mounted, isAuthor, species, isEditing, authorDisplayName, effectPending,
          values, errors, inflight, store, refreshPending, route, out, stale,
          reply, edits, id, loading, pageSpecies, pageEffectPending>>

dialogVars == <<mounted, isAuthor, species, isEditing, authorDisplayName,
                effectPending, values, errors, refreshPending, route, edits>>

pageVars == <<id, loading, pageSpecies, pageEffectPending>>

----------------------------------------------------------------------------
(* Bounds of the model *)

MaxLen == 3
MaxEdits == 1
MaxPending == 2

----------------------------------------------------------------------------
(* Values *)

Null == << >>
Some(v) == << v >>

Unit == 10
Num(i) == i * Unit

SP == " "
SCHEME == "http:"
Char == {SP, "x", SCHEME}

RECURSIVE TrimStart(_)
TrimStart(s) == IF s # << >> /\ Head(s) = SP THEN TrimStart(Tail(s)) ELSE s

RECURSIVE TrimEnd(_)
TrimEnd(s) ==
    IF s # << >> /\ s[Len(s)] = SP THEN TrimEnd(SubSeq(s, 1, Len(s) - 1)) ELSE s

\* String.prototype.trim
Trim(s) == TrimEnd(TrimStart(s))

\* new URL(s) does not throw: leading and trailing spaces are stripped, the
\* rest must start with a scheme, have a host after it and hold no space.
IsUrl(s) ==
    LET t == Trim(s) IN
        /\ Len(t) >= 2
        /\ t[1] = SCHEME
        /\ \A i \in 2..Len(t) : t[i] # SP

kingdoms == {"Animalia", "Plantae", "Fungi", "Protista", "Archaea", "Bacteria"}

Fields == {"scientific_name", "common_name", "kingdom", "total_population",
           "image", "description"}

----------------------------------------------------------------------------
(* speciesSchema *)

\* ScientificNameOut stripping one leading space instead of trimming
ScientificNameOutOnce(v) == IF v # << >> /\ v[1] = SP THEN Tail(v) ELSE v

\* z.string().trim().min(1).transform((val) => val?.trim())
ScientificNameOk(v) == Len(Trim(v)) >= 1
ScientificNameOut(v) == Trim(Trim(v))

\* .transform((val) => (!val || val.trim() === "" ? null : val.trim()))
NullIfBlank(v) ==
    IF v = Null \/ v[1] = << >> \/ Trim(v[1]) = << >> THEN Null ELSE Some(Trim(v[1]))

\* z.string().nullable(): any string or null passes
CommonNameOk(v) == TRUE

\* kingdoms (z.enum)
KingdomOk(v) == v \in kingdoms

\* TotalPopulationOk without .int()
TotalPopulationOkFractions(v) ==
    \/ v = Null
    \/ /\ v[1] > 0
       /\ v[1] >= Num(1)

\* z.number().int().positive().min(1).nullable()
TotalPopulationOk(v) ==
    \/ v = Null
    \/ /\ v[1] % Unit = 0
       /\ v[1] > 0
       /\ v[1] >= Num(1)

\* z.string().url().nullable(): the url check runs on the raw string, before
\* the transform
ImageOk(v) == v = Null \/ IsUrl(v[1])

DescriptionOk(v) == TRUE

FieldOk(f, d) ==
    CASE f = "scientific_name" -> ScientificNameOk(d.scientific_name)
      [] f = "common_name" -> CommonNameOk(d.common_name)
      [] f = "kingdom" -> KingdomOk(d.kingdom)
      [] f = "total_population" -> TotalPopulationOk(d.total_population)
      [] f = "image" -> ImageOk(d.image)
      [] f = "description" -> DescriptionOk(d.description)

\* the fields zod reports an issue for
FieldErrors(d) == {f \in Fields : ~FieldOk(f, d)}

Valid(d) == FieldErrors(d) = {}

\* the output of a successful parse
Parsed(d) ==
    [scientific_name |-> ScientificNameOut(d.scientific_name),
     common_name |-> NullIfBlank(d.common_name),
     kingdom |-> d.kingdom,
     total_population |-> d.total_population,
     image |-> NullIfBlank(d.image),
     description |-> NullIfBlank(d.description)]

----------------------------------------------------------------------------
(* SpeciesDetailsDialog: state after construction *)

\* the row the parent fetched and passes as the `species` prop
FetchedRow ==
    [scientific_name |-> <<"x">>,
     common_name |-> Null,
     kingdom |-> "Animalia",
     total_population |-> Some(Num(7)),
     image |-> Null,
     description |-> Some(<<"x">>)]

\* display names the profiles table may hold
DisplayNames == {"ann"}

\* !authorDisplayName
Falsy(n) == n = Null \/ n = Some("")

NoReply == << >>

NoRoute == "none"
DetailsRoute == "/species/id"

\* const defaultValues = { scientific_name: species.scientific_name, ... }
defaultValues == species

\* a value of router.query.id, tagged with its typeof
Undefined == <<"undefined">>

\* the detail page is not rendered
PageAbsent ==
    /\ id = Undefined
    /\ loading = TRUE
    /\ pageSpecies = Null
    /\ pageEffectPending = FALSE

Init ==
    /\ PageAbsent
    /\ mounted = TRUE
    /\ isAuthor \in BOOLEAN
    /\ species = FetchedRow
    /\ isEditing = FALSE
    /\ authorDisplayName = Null
    /\ effectPending = TRUE
    /\ values = FetchedRow
    /\ errors = {}
    /\ inflight = EmptyBag
    /\ store = Some(FetchedRow)
    /\ refreshPending = FALSE
    /\ route = NoRoute
    /\ out = {}
    /\ stale = {}
    /\ reply = NoReply
    /\ edits = 0

----------------------------------------------------------------------------
(* Remote requests *)

Request(op, input) == [op |-> op, input |-> input]

\* the number of requests awaiting their reply
Outstanding == BagCardinality(inflight)

Send(req) ==
    /\ Outstanding < MaxPending
    /\ inflight' = inflight (+) SetToBag({req})

Received(req) == inflight (-) SetToBag({req})

\* the state updaters a continuation calls, when the instance is gone
StaleCalls(names) == IF mounted THEN {} ELSE names

----------------------------------------------------------------------------
(* User input on the form fields *)

\* what the user may leave in the number input (event.target.value)
NumberTyped == {"", "-5"}

\* +event.target.value
ToNumber(t) ==
    CASE t = "" -> 0
      [] t = "-5" -> Num(-5)

\* the values the user's input events deliver to field.onChange; common_name
\* is wired and validated as description is and is typed into in SchemaInit
Typed(f) ==
    CASE f = "scientific_name" -> {<<SP, "x", "x">>}
      [] f = "common_name" -> {}
      [] f = "kingdom" -> {"Plantae"}
      [] f = "total_population" -> {Some(ToNumber(t)) : t \in NumberTyped}
      [] f = "image" -> {Some(<< >>)}
      [] f = "description" -> {Some(<<SP>>)}

\* readOnly={!isEditing} on every Input and Textarea; the kingdom Select
\* carries no readOnly or disabled attribute
ReadOnly(f) == IF f = "kingdom" THEN FALSE ELSE ~isEditing

\* field.onChange(v) under mode: "onChange": the value is stored and the
\* changed field's error is recomputed by the resolver
FieldChange(f, v) ==
    /\ mounted
    /\ ~ReadOnly(f)
    /\ edits < MaxEdits
    /\ edits' = edits + 1
    /\ values' = [values EXCEPT ![f] = v]
    /\ errors' = (errors \ {f}) \cup ({f} \cap FieldErrors(values'))
    /\ out' = {}
    /\ stale' = {}
    /\ reply' = NoReply
    /\ UNCHANGED <<mounted, isAuthor, species, isEditing, authorDisplayName,
                   effectPending, inflight, store, refreshPending, route>>

----------------------------------------------------------------------------
(* Edit session handlers *)

\* StartEditing with the Edit Species button shown to every user
StartEditingUngated ==
    /\ mounted
    /\ ~isEditing
    /\ isEditing' = TRUE
    /\ out' = {}
    /\ stale' = {}
    /\ reply' = NoReply
    /\ UNCHANGED <<mounted, isAuthor, species, authorDisplayName, effectPending,
                   values, errors, inflight, store, refreshPending, route,
                   edits>>

\* startEditing, behind species.author === currentUser && !isEditing
StartEditing ==
    /\ mounted
    /\ isAuthor
    /\ ~isEditing
    /\ isEditing' = TRUE
    /\ out' = {}
    /\ stale' = {}
    /\ reply' = NoReply
    /\ UNCHANGED <<mounted, isAuthor, species, authorDisplayName, effectPending,
                   values, errors, inflight, store, refreshPending, route,
                   edits>>

\* handleCancel, behind species.author === currentUser && isEditing
HandleCancel(confirmed) ==
    /\ mounted
    /\ isAuthor
    /\ isEditing
    /\ IF confirmed
         THEN /\ values' = defaultValues
              /\ errors' = {}
              /\ isEditing' = FALSE
         ELSE UNCHANGED <<values, errors, isEditing>>
    /\ out' = {"confirm: Revert all unsaved changes?"}
    /\ stale' = {}
    /\ reply' = NoReply
    /\ UNCHANGED <<mounted, isAuthor, species, authorDisplayName, effectPending,
                   inflight, store, refreshPending, route, edits>>

\* HandleSubmit whose resolver validates but hands onSubmit the raw values
HandleSubmitRaw(also) ==
    IF Valid(values)
      THEN /\ Send(Request("update", values))
           /\ errors' = {}
           /\ out' = also \cup {"submit"}
      ELSE /\ errors' = FieldErrors(values)
           /\ out' = also \cup {"submit", "focus error"}
           /\ UNCHANGED inflight

\* HandleSubmit without the resolver: onSubmit is called with the raw values
HandleSubmitUnchecked(also) ==
    /\ Send(Request("update", values))
    /\ errors' = {}
    /\ out' = also \cup {"submit"}

\* form.handleSubmit(onSubmit): the resolver runs; on issues they become the
\* form's errors, the first field in error is focused and onSubmit is not
\* called; otherwise onSubmit is called with the parsed values and sends the
\* update. `also` are the effects of the click handler that ran before the
\* form's submit event.
HandleSubmit(also) ==
    IF Valid(values)
      THEN /\ Send(Request("update", Parsed(values)))
           /\ errors' = {}
           /\ out' = also \cup {"submit"}
      ELSE /\ errors' = FieldErrors(values)
           /\ out' = also \cup {"submit", "focus error"}
           /\ UNCHANGED inflight

\* the Confirm button (type="submit"), behind author && isEditing
Confirm ==
    /\ mounted
    /\ isAuthor
    /\ isEditing
    /\ HandleSubmit({})
    /\ stale' = {}
    /\ reply' = NoReply
    /\ UNCHANGED <<mounted, isAuthor, species, isEditing, authorDisplayName,
                   effectPending, values, store, refreshPending, route, edits>>

\* the View Full Details button: onClick={navigateToDetails}; the button
\* sits inside the <form> and declares no type, so the click also submits
\* the form
ViewFullDetails ==
    /\ mounted
    /\ route' = DetailsRoute
    /\ HandleSubmit({"push"})
    /\ stale' = {}
    /\ reply' = NoReply
    /\ UNCHANGED <<mounted, isAuthor, species, isEditing, authorDisplayName,
                   effectPending, values, store, refreshPending, edits>>

\* handleDelete, behind author && !isEditing
HandleDelete(confirmed) ==
    /\ mounted
    /\ isAuthor
    /\ ~isEditing
    /\ IF confirmed
         THEN Send(Request("delete", Null))
         ELSE UNCHANGED inflight
    /\ out' = {"confirm: Are you sure you want to delete this species?"}
    /\ stale' = {}
    /\ reply' = NoReply
    /\ UNCHANGED <<mounted, isAuthor, species, isEditing, authorDisplayName,
                   effectPending, values, errors, store, refreshPending, route,
                   edits>>

----------------------------------------------------------------------------
(* Continuations after the awaited remote calls *)

\* UpdateReply with an error branch that also leaves edit mode and resets
\* the form to the props
UpdateReplyGivesUp(req, ok) ==
    /\ req.op = "update"
    /\ inflight' = Received(req)
    /\ reply' = <<"update", IF ok THEN "ok" ELSE "error">>
    /\ store' = IF ok /\ store # Null THEN Some(req.input) ELSE store
    /\ out' = IF ok THEN {"refresh", "toast: Changes saved!"}
                    ELSE {"toast: Something went wrong."}
    /\ stale' = StaleCalls({"setIsEditing", "form.reset"})
    /\ IF mounted
         THEN /\ isEditing' = FALSE
              /\ values' = IF ok THEN req.input ELSE defaultValues
              /\ errors' = {}
              /\ refreshPending' = (refreshPending \/ ok)
         ELSE UNCHANGED <<isEditing, values, errors, refreshPending>>
    /\ UNCHANGED <<mounted, isAuthor, species, authorDisplayName, effectPending,
                   route, edits>>

\* onSubmit after `await supabase.from("species").update(input).eq("id", species.id)`.
\* The continuation runs whether or not the instance is still mounted; the
\* state of an instance that is gone is not there to change, the calls are
\* recorded in `stale`.
UpdateReply(req, ok) ==
    /\ req.op = "update"
    /\ inflight' = Received(req)
    /\ reply' = <<"update", IF ok THEN "ok" ELSE "error">>
    /\ store' = IF ok /\ store # Null THEN Some(req.input) ELSE store
    /\ IF ok
         THEN /\ out' = {"refresh", "toast: Changes saved!"}
              /\ stale' = StaleCalls({"setIsEditing", "form.reset"})
              /\ IF mounted
                   THEN /\ isEditing' = FALSE
                        /\ values' = req.input
                        /\ errors' = {}
                        /\ refreshPending' = TRUE
                   ELSE UNCHANGED <<isEditing, values, errors, refreshPending>>
         ELSE /\ out' = {"toast: Something went wrong."}
              /\ stale' = {}
              /\ UNCHANGED <<isEditing, values, errors, refreshPending>>
    /\ UNCHANGED <<mounted, isAuthor, species, authorDisplayName, effectPending,
                   route, edits>>

\* handleDelete after `await supabase.from("species").delete().eq("id", species.id)`:
\* the error branch only alerts, the rest runs in both cases
DeleteReply(req, ok) ==
    /\ req.op = "delete"
    /\ inflight' = Received(req)
    /\ reply' = <<"delete", IF ok THEN "ok" ELSE "error">>
    /\ store' = IF ok THEN Null ELSE store
    /\ out' = (IF ok THEN {} ELSE {"alert"})
                \cup {"refresh", "toast: Species deleted successfully."}
    /\ stale' = StaleCalls({"setIsEditing"})
    /\ IF mounted
         THEN /\ refreshPending' = TRUE
              /\ isEditing' = FALSE
         ELSE UNCHANGED <<refreshPending, isEditing>>
    /\ UNCHANGED <<mounted, isAuthor, species, authorDisplayName, effectPending,
                   values, errors, route, edits>>

\* RunEffect without the `if (!authorDisplayName)` test
RunEffectAlways ==
    /\ mounted
    /\ effectPending
    /\ effectPending' = FALSE
    /\ Send(Request("profile", Null))
    /\ out' = {}
    /\ stale' = {}
    /\ reply' = NoReply
    /\ UNCHANGED <<mounted, isAuthor, species, isEditing, authorDisplayName,
                   values, errors, store, refreshPending, route, edits>>

\* the effect body: if (!authorDisplayName) void fetchAuthorDisplayName()
RunEffect ==
    /\ mounted
    /\ effectPending
    /\ effectPending' = FALSE
    /\ IF Falsy(authorDisplayName)
         THEN Send(Request("profile", Null))
         ELSE UNCHANGED inflight
    /\ out' = {}
    /\ stale' = {}
    /\ reply' = NoReply
    /\ UNCHANGED <<mounted, isAuthor, species, isEditing, authorDisplayName,
                   values, errors, store, refreshPending, route, edits>>

\* fetchAuthorDisplayName after the awaited select: an error reply, a row, or
\* a rejected promise (caught)
ProfileReply(req, outcome, name) ==
    /\ req.op = "profile"
    /\ inflight' = Received(req)
    /\ reply' = <<"profile", outcome>>
    /\ CASE outcome = "ok" ->
              /\ out' = {}
              /\ stale' = StaleCalls({"setAuthorDisplayName"})
              /\ IF mounted
                   THEN /\ authorDisplayName' = Some(name)
                        \* a changed dependency re-runs the effect
                        /\ effectPending' =
                              (effectPending \/ authorDisplayName # Some(name))
                   ELSE UNCHANGED <<authorDisplayName, effectPending>>
         [] outcome = "error" ->
              /\ out' = {"toast: Error fetching author's display name."}
              /\ stale' = {}
              /\ UNCHANGED <<authorDisplayName, effectPending>>
         [] outcome = "throw" ->
              /\ out' = {"console.error"}
              /\ stale' = {}
              /\ UNCHANGED <<authorDisplayName, effectPending>>
    /\ UNCHANGED <<mounted, isAuthor, species, isEditing, values, errors, store,
                   refreshPending, route, edits>>

----------------------------------------------------------------------------
(* Environment: the router and the parent that renders the dialog *)

\* Unmounting discards the instance: its hooks' state and its form are gone
Teardown ==
    /\ mounted' = FALSE
    /\ isEditing' = FALSE
    /\ authorDisplayName' = Null
    /\ effectPending' = FALSE
    /\ values' = FetchedRow
    /\ errors' = {}
    /\ species' = FetchedRow
    /\ refreshPending' = FALSE
    /\ edits' = 0

\* router.refresh() completes: the parent re-renders from the store; a row
\* that is gone is no longer rendered, otherwise the `species` prop is the
\* current row
RefreshDelivered ==
    /\ mounted
    /\ refreshPending
    /\ IF store = Null
         THEN Teardown
         ELSE /\ species' = store[1]
              /\ refreshPending' = FALSE
              /\ UNCHANGED <<mounted, isEditing, authorDisplayName, effectPending,
                             values, errors, edits>>
    /\ out' = {}
    /\ stale' = {}
    /\ reply' = NoReply
    /\ UNCHANGED <<isAuthor, inflight, store, route>>

\* router.push("/species/" + species.id) completes: the page holding the
\* dialog is left and the instance is unmounted
RouteChange ==
    /\ mounted
    /\ route # NoRoute
    /\ Teardown
    /\ out' = {}
    /\ stale' = {}
    /\ reply' = NoReply
    /\ UNCHANGED <<isAuthor, inflight, store, route>>

----------------------------------------------------------------------------

Next ==
    \/ /\ \E f \in Fields : \E v \in Typed(f) : FieldChange(f, v)
       /\ UNCHANGED pageVars
    \/ /\ StartEditing
       /\ UNCHANGED pageVars
    \/ /\ \E c \in BOOLEAN : HandleCancel(c)
       /\ UNCHANGED pageVars
    \/ /\ Confirm
       /\ UNCHANGED pageVars
    \/ /\ ViewFullDetails
       /\ UNCHANGED pageVars
    \/ /\ \E c \in BOOLEAN : HandleDelete(c)
       /\ UNCHANGED pageVars
    \/ /\ \E req \in BagToSet(inflight) : \E ok \in BOOLEAN : UpdateReply(req, ok)
       /\ UNCHANGED pageVars
    \/ /\ \E req \in BagToSet(inflight) : \E ok \in BOOLEAN : DeleteReply(req, ok)
       /\ UNCHANGED pageVars
    \/ /\ RunEffect
       /\ UNCHANGED pageVars
    \/ /\ \E req \in BagToSet(inflight) : \E o \in {"ok", "error", "throw"} :
             \E n \in DisplayNames : ProfileReply(req, o, n)
       /\ UNCHANGED pageVars
    \/ /\ RefreshDelivered
       /\ UNCHANGED pageVars
    \/ /\ RouteChange
       /\ UNCHANGED pageVars

Spec == Init /\ [][Next]_vars

----------------------------------------------------------------------------
(* The validator on its own: a form in edit mode whose draft is the fetched *)
(* row with one field holding any input of bounded length, submitted,       *)
(* answered, re-opened and submitted again.                                 *)

Strings == UNION {[1..n -> Char] : n \in 0..MaxLen}

\* numbers the number input can deliver, and null from the store
SchemaNumbers == {Num(-5), Num(-1), 0, Num(1), Num(2) + 5, Num(7)}

SchemaInputs(f) ==
    CASE f = "scientific_name" -> Strings
      [] f = "kingdom" -> kingdoms
      [] f = "total_population" -> {Null} \cup {Some(n) : n \in SchemaNumbers}
      [] OTHER -> {Null} \cup {Some(t) : t \in Strings}

SchemaInit ==
    /\ PageAbsent
    /\ mounted = TRUE
    /\ isAuthor = TRUE
    /\ species = FetchedRow
    /\ isEditing = TRUE
    /\ authorDisplayName = Some("ann")
    /\ effectPending = FALSE
    /\ \E f \in Fields : \E v \in SchemaInputs(f) :
          /\ values = [FetchedRow EXCEPT ![f] = v]
          /\ errors = {f} \cap FieldErrors(values)
    /\ inflight = EmptyBag
    /\ store = Some(FetchedRow)
    /\ refreshPending = FALSE
    /\ route = NoRoute
    /\ out = {}
    /\ stale = {}
    /\ reply = NoReply
    /\ edits = MaxEdits

SchemaNext ==
    \/ /\ Confirm
       /\ UNCHANGED pageVars
    \/ /\ \E req \in BagToSet(inflight) : \E ok \in BOOLEAN : UpdateReply(req, ok)
       /\ UNCHANGED pageVars
    \/ /\ StartEditing
       /\ UNCHANGED pageVars

SpecSchema == SchemaInit /\ [][SchemaNext]_vars

----------------------------------------------------------------------------
(* SpeciesDetailPage: the page behind /species/[id]                         *)

\* the id of the row the store holds, and an id no row has
StoredId == 7
OtherId == 8

\* values router.query.id takes: absent, a string, a string array; the
\* effect tests for a number, so numbers are enumerated as well
RouteIds == {Undefined, <<"string", "7">>, <<"object", <<"7">>>>,
             <<"number", StoredId>>, <<"number", OtherId>>}

\* typeof id
TypeOf(v) == v[1]

\* the page right after its first render, the dialog that led to it gone
PageInit ==
    /\ mounted = FALSE
    /\ isAuthor \in BOOLEAN
    /\ species = FetchedRow
    /\ isEditing = FALSE
    /\ authorDisplayName = Null
    /\ effectPending = FALSE
    /\ values = FetchedRow
    /\ errors = {}
    /\ inflight = EmptyBag
    /\ store \in {Null, Some(FetchedRow)}
    /\ refreshPending = FALSE
    /\ route = DetailsRoute
    /\ out = {}
    /\ stale = {}
    /\ reply = NoReply
    /\ edits = 0
    /\ id \in RouteIds
    /\ loading = TRUE
    /\ pageSpecies = Null
    /\ pageEffectPending = TRUE

\* fetchSpecies up to its await: `if (typeof id !== "number") return;`, then
\* setLoading(true) and the select
PageEffect ==
    /\ pageEffectPending
    /\ pageEffectPending' = FALSE
    /\ IF TypeOf(id) # "number"
         THEN UNCHANGED <<loading, inflight>>
         ELSE /\ loading' = TRUE
              /\ Send(Request("select", id))
    /\ out' = {}
    /\ stale' = {}
    /\ reply' = NoReply
    /\ UNCHANGED <<dialogVars, store, id, pageSpecies>>

\* fetchSpecies after the await: .single() gives the row, or an error that is
\* thrown and caught (also when no row matches), or the call rejects;
\* `finally` runs setLoading(false) in every case
SelectReply(req, outcome) ==
    /\ req.op = "select"
    /\ outcome = "row" => (store # Null /\ req.input = <<"number", StoredId>>)
    /\ inflight' = Received(req)
    /\ reply' = <<"select", outcome>>
    /\ pageSpecies' = IF outcome = "row" THEN store ELSE pageSpecies
    /\ out' = IF outcome = "row" THEN {} ELSE {"console.error"}
    /\ loading' = FALSE
    /\ stale' = {}
    /\ UNCHANGED <<dialogVars, store, id, pageEffectPending>>

\* the router delivers another query (hydration, or a navigation to another
\* record); the effect's dependency [id] changed, so it runs again
QueryChange(v) ==
    /\ v # id
    /\ id' = v
    /\ pageEffectPending' = TRUE
    /\ out' = {}
    /\ stale' = {}
    /\ reply' = NoReply
    /\ UNCHANGED <<dialogVars, inflight, store, loading, pageSpecies>>

PageNext ==
    \/ PageEffect
    \/ \E req \in BagToSet(inflight) : \E o \in {"row", "error", "throw"} :
          SelectReply(req, o)
    \/ \E v \in RouteIds : QueryChange(v)

SpecPage == PageInit /\ [][PageNext]_vars

----------------------------------------------------------------------------
(* Properties *)

\* update and delete requests awaiting their reply
Mutations == {req \in BagToSet(inflight) : req.op \in {"update", "delete"}}
MutationsOutstanding ==
    BagCardinality([req \in Mutations |-> CopiesIn(req, inflight)])

\* payloads of the update requests awaiting their reply
Payloads == {req.input : req \in {r \in BagToSet(inflight) : r.op = "update"}}

\* The dialog is the row's only writer here, so the last value fetched from
\* or successfully written to the store is the row as the store holds it.
HasSnapshot == store # Null
Snapshot == store[1]

SAVED == "toast: Changes saved!"
DELETED == "toast: Species deleted successfully."

\* C1: when the continuation of a confirmed delete receives an error, the
\* controller state is unchanged: the dialog is in Viewing as it was when the
\* delete was initiated, draft and errors are untouched, no refresh is
\* requested, and an alert is the only effect.
C1_DeleteFailureLeavesState ==
    [][reply' = <<"delete", "error">> =>
          /\ out' = {"alert"}
          /\ isEditing' = FALSE
          /\ UNCHANGED <<values, errors, species, refreshPending>>]_vars

\* C2: a success notification is emitted only by the continuation of a
\* remote call that replied ok: "Changes saved!" only after an update that
\* succeeded, "Species deleted successfully." only after a delete that
\* succeeded.
C2_SuccessToastOnlyAfterOk ==
    /\ SAVED \in out => reply = <<"update", "ok">>
    /\ DELETED \in out => reply = <<"delete", "ok">>

\* C3: at most one update or delete request for the record is outstanding.
C3_AtMostOneMutationOutstanding == MutationsOutstanding <= 1

\* C4: the View Full Details action only requests the route: it leaves the
\* edit mode, the draft, its errors and the snapshot unchanged, runs no
\* validation and sends nothing.
C4_NavigationOnlyNavigates ==
    [][("push" \in out') =>
          /\ out' = {"push"}
          /\ route' = DetailsRoute
          /\ UNCHANGED <<isEditing, values, errors, species, inflight, store>>]_vars

\* C5: after a confirmed cancel the dialog is in Viewing and the draft equals
\* the snapshot, the last value fetched from or successfully written to the
\* store.
C5_CancelResetsToSnapshot ==
    [][(isEditing /\ "confirm: Revert all unsaved changes?" \in out' /\ ~isEditing'
          /\ HasSnapshot)
          => values' = Snapshot]_vars

\* C6: a submit of a draft that fails validation sends no request, leaves
\* the edit mode (Editing stays Editing) and the draft as they are, and
\* attaches an error to exactly the fields that fail.
C6_InvalidSubmitStaysLocal ==
    [][("submit" \in out' /\ ~Valid(values)) =>
          /\ inflight' = inflight
          /\ isEditing' = isEditing
          /\ values' = values
          /\ errors' = FieldErrors(values)
          /\ errors' # {}]_vars

\* C6 witness: in Editing, a draft with total_population = -5 has been
\* submitted and carries an error on that field, nothing was sent.
C6_Witness ==
    /\ isEditing
    /\ "submit" \in out
    /\ values.total_population = Some(Num(-5))
    /\ "total_population" \in errors
    /\ inflight = EmptyBag

\* C7: while the dialog is in Viewing no input event on a field changes the
\* draft.
C7_ReadOnlyInViewing ==
    [][(mounted /\ ~isEditing /\ edits' = edits + 1) => values' = values]_vars

NullableText == {"common_name", "image", "description"}

\* C8: for common_name, image and description, a submitted value that is
\* empty or only whitespace validates and is sent as null, and a value with
\* content validates and is sent trimmed (for image, when the trimmed content
\* is a well-formed URL).
C8_NullableTextNormalised ==
    \A f \in NullableText :
        ("submit" \in out /\ values[f] # Null) =>
            LET raw == values[f][1]
                SentAs(v) ==
                    /\ f \notin errors
                    /\ errors = {} => (Payloads # {} /\ \A p \in Payloads : p[f] = v)
            IN  IF Trim(raw) = << >>
                  THEN SentAs(Null)
                  ELSE (f = "image" => IsUrl(Trim(raw))) => SentAs(Some(Trim(raw)))

\* C9: a continuation that runs after the instance is gone calls no state
\* updater on it.
C9_NoUpdateAfterTeardown == stale = {}

\* C10: a start edit makes no remote call and leaves the draft equal to the
\* snapshot.
C10_StartEditSeedsSnapshot ==
    [][(~isEditing /\ isEditing') =>
          /\ inflight' = inflight
          /\ HasSnapshot => values' = Snapshot]_vars

FAILED == "toast: Something went wrong."

\* C11 as claimed, for submits made with Confirm (no View Full Details click
\* in the run): once the error reply of an update is handled the dialog is
\* in Editing.
C11_FailureEndsInEditing ==
    (reply = <<"update", "error">> /\ mounted /\ route = NoRoute) => isEditing

\* C11 amended: handling the error reply of an update emits the error
\* notification and nothing else, requests no refresh and changes neither the
\* edit mode, the draft and its errors, nor the snapshot: the dialog is in
\* Editing with the draft retained exactly when it was so before the reply.
C11_FailureChangesNothing ==
    [][reply' = <<"update", "error">> =>
          /\ out' = {FAILED}
          /\ UNCHANGED <<isEditing, values, errors, species, store,
                         refreshPending>>]_vars

\* C11 witness: an error reply has been handled and the dialog is in Editing
\* with an edited draft that differs from the stored row.
C11_Witness ==
    /\ reply = <<"update", "error">>
    /\ mounted
    /\ isEditing
    /\ FAILED \in out
    /\ HasSnapshot
    /\ values # Snapshot

\* C12: a submit of a valid draft sends the validator's output for that draft
\* as the payload; once the success reply of an update is handled the dialog
\* is in Viewing, the success notification and a refresh have been emitted,
\* and the form holds the payload, which is the row the store now holds.
C12_SuccessAdoptsPayload ==
    /\ ("submit" \in out /\ "focus error" \notin out) =>
          /\ Valid(values)
          /\ Parsed(values) \in Payloads
    /\ reply = <<"update", "ok">> =>
          /\ ~isEditing
          /\ SAVED \in out
          /\ "refresh" \in out
          /\ mounted => /\ refreshPending
                        /\ errors = {}
                        /\ HasSnapshot => values = Snapshot

\* C12 witness: a success reply has been handled for a payload that the
\* validator normalised (the typed scientific name had a leading space).
C12_Witness ==
    /\ reply = <<"update", "ok">>
    /\ mounted
    /\ ~isEditing
    /\ HasSnapshot
    /\ values = Snapshot
    /\ values.scientific_name = <<"x", "x">>
    /\ SAVED \in out

\* C13: for a user who is not the record's author the Edit Species, Delete
\* Species, Confirm and Cancel buttons are never available, so the dialog is
\* never in Editing, no delete request is ever outstanding or answered, and
\* neither confirmation prompt is ever shown; of the buttons only View Full
\* Details remains.
C13_AuthorGate ==
    ~isAuthor =>
        /\ ~isEditing
        /\ \A req \in BagToSet(inflight) : req.op # "delete"
        /\ reply \notin {<<"delete", "ok">>, <<"delete", "error">>}
        /\ \A e \in out : e \notin {"confirm: Revert all unsaved changes?",
                                    "confirm: Are you sure you want to delete this species?"}
        /\ ~ENABLED StartEditing
        /\ ~ENABLED HandleDelete(TRUE)
        /\ ~ENABLED HandleDelete(FALSE)
        /\ ~ENABLED Confirm
        /\ ~ENABLED HandleCancel(TRUE)
        /\ ~ENABLED HandleCancel(FALSE)

\* C13 witness: a user who is not the author has used the dialog (clicked
\* View Full Details) and it is still in Viewing with the buttons withheld.
C13_Witness ==
    /\ ~isAuthor
    /\ mounted
    /\ "push" \in out
    /\ route = DetailsRoute
    /\ ~isEditing
    /\ ~ENABLED StartEditing

\* C14: whenever the form has been submitted, total_population is among the
\* fields in error if it is a number that is zero, negative or not an integer
\* (0, -1, 2.5), and is not among them if it is null or an integer >= 1.
C14_TotalPopulationRule ==
    "submit" \in out =>
        LET p == values.total_population
            rejected == "total_population" \in errors
        IN  /\ (p # Null /\ p[1] <= 0) => rejected
            /\ (p # Null /\ p[1] % Unit # 0) => rejected
            /\ p = Null => ~rejected
            /\ (p # Null /\ p[1] % Unit = 0 /\ p[1] >= Num(1)) => ~rejected

\* C14 witness: a draft whose total_population is 2.5 has been submitted and
\* the field is in error.
C14_Witness ==
    /\ "submit" \in out
    /\ values.total_population = Some(Num(2) + 5)
    /\ errors = {"total_population"}
    /\ inflight = EmptyBag

\* C16: every payload the validator produced validates again and is its own
\* normalised output.
C16_ValidationIdempotent ==
    \A p \in Payloads : Valid(p) /\ Parsed(p) = p

\* C16 witness: a validated payload other than the fetched row was saved,
\* the form holding it was re-opened and submitted again, and the second
\* payload is that same value.
C16_Witness ==
    /\ "submit" \in out
    /\ isEditing
    /\ store = Some(values)
    /\ values.scientific_name = <<"x", "x">>
    /\ values \in Payloads

\* profile requests awaiting their reply
ProfileFetches == CopiesIn(Request("profile", Null), inflight)

\* C15: at most one display-name fetch is outstanding; while the dialog is
\* mounted a fetch is outstanding only while no display name is cached, so
\* once a name is cached none is issued; and after a failed fetch (error
\* reply or rejected promise) the name stays absent, the effect is not
\* re-run, and the only effect is the error toast or the console message.
C15_DisplayNameFetch ==
    /\ ProfileFetches <= 1
    /\ (mounted /\ ProfileFetches > 0) => authorDisplayName = Null
    /\ ~Falsy(authorDisplayName) => ProfileFetches = 0
    /\ (mounted /\ reply \in {<<"profile", "error">>, <<"profile", "throw">>}) =>
          /\ authorDisplayName = Null
          /\ ~effectPending
          /\ ProfileFetches = 0
          /\ stale = {}
          /\ out \in {{"toast: Error fetching author's display name."},
                      {"console.error"}}

\* C15 witness: the fetch was answered with a name, the effect ran again for
\* the changed dependency and issued no fetch.
C15_Witness ==
    /\ mounted
    /\ authorDisplayName = Some("ann")
    /\ ~effectPending
    /\ ProfileFetches = 0
    /\ reply = NoReply
    /\ out = {}

\* C17: a step that sends an update request (a submit of a valid draft) is
\* taken by the author while the dialog is in Editing, and no update request
\* is ever outstanding in a dialog shown to another user.
C17_UpdateOnlyFromEditingAuthor ==
    /\ ("submit" \in out /\ "focus error" \notin out) => (isAuthor /\ isEditing)
    /\ Payloads # {} => isAuthor

\* the change event of the emptied total_population input:
\* field.onChange(+"")
ClearPopulation == FieldChange("total_population", Some(ToNumber("")))

\* C19: every step in which the total_population input is cleared leaves
\* the draft's total_population null and the field free of errors, so that a
\* submit can validate and persist null.
C19_ClearingGivesNull ==
    [][ClearPopulation =>
          /\ values'.total_population = Null
          /\ "total_population" \notin errors']_vars

\* the page has nothing left to do: its effect ran and no select is awaited
PageSettled ==
    /\ ~pageEffectPending
    /\ \A req \in BagToSet(inflight) : req.op # "select"

\* C18: for every route id, once the page's effect has run and no fetch is
\* outstanding the page has left the loading state (it renders the record
\* or "Species not found.").
C18_LoadingEnds ==
    PageSettled => ~loading

====
